---- MODULE Spec2Model ----
(***************************************************************************)
(* Email ingestion and ticket routing: the Cloudflare email worker         *)
(* (cloudflare-worker/email-to-zammad.js) and the Node ZammadIntegration   *)
(* class (integrations/zammad.js), with the Zammad HTTP API as the         *)
(* environment.                                                            *)
(*                                                                         *)
(* Strings are sequences of one-character strings.  An optional value      *)
(* (undefined/null in the source) is a sequence of length 0 (absent) or 1  *)
(* (present, holding the value).                                           *)
(***************************************************************************)
EXTENDS Integers, Sequences, FiniteSets, TLC

\* ------------------------------------------------------------------ bounds
MaxLen == 2        \* longest to / subject string of a matched email
MaxRules == 2      \* longest rule list handed to findMatchingRule

\* ----------------------------------------------------------------- strings
Chars == {"A", "b"}

Absent == <<>>
Some(v) == <<v>>

StrsUpTo(n) == UNION {[1..k -> Chars] : k \in 0..n}

\* String.prototype.toLowerCase on one character
LowerChar(c) == IF c = "A" THEN "a" ELSE IF c = "B" THEN "b" ELSE c

ToLowerCase(s) == [i \in 1..Len(s) |-> LowerChar(s[i])]

\* String.prototype.includes: k occurs in s as a contiguous substring
Includes(s, k) ==
  \E i \in 0..(Len(s) - Len(k)) : SubSeq(s, i + 1, i + Len(k)) = k

\* (x || '') for an optional string: undefined, null and '' all give ''
OrEmpty(opt) == IF opt = Absent THEN <<>> ELSE opt[1]

\* ------------------------------------------------------- findMatchingRule
\* rule.match.<field>.some(keyword => field.includes(keyword.toLowerCase()))
SomeKeywordIn(keywords, field) ==
  \E i \in 1..Len(keywords) : Includes(field, ToLowerCase(keywords[i]))

\* Variant of the loop body that joins the two fields with || instead of &&
RuleMatchesMutAnyField(email, rule) ==
  LET toOk == rule.match.toContains # Absent
                /\ SomeKeywordIn(rule.match.toContains[1], ToLowerCase(OrEmpty(email.to)))
      subjOk == rule.match.subjectContains # Absent
                /\ SomeKeywordIn(rule.match.subjectContains[1], ToLowerCase(OrEmpty(email.subject)))
  IN  IF rule.match.toContains = Absent /\ rule.match.subjectContains = Absent
        THEN TRUE ELSE toOk \/ subjOk

\* The body of the for loop: the value of `matches` for one rule
RuleMatches(email, rule) ==
  LET m0 == TRUE
      m1 == IF rule.match.toContains # Absent
              THEN m0 /\ SomeKeywordIn(rule.match.toContains[1],
                                       ToLowerCase(OrEmpty(email.to)))
              ELSE m0
      m2 == IF rule.match.subjectContains # Absent
              THEN m1 /\ SomeKeywordIn(rule.match.subjectContains[1],
                                       ToLowerCase(OrEmpty(email.subject)))
              ELSE m1
  IN  m2

\* The for loop from position i: index of the rule returned, 0 for null
RECURSIVE FindFrom(_, _, _)
FindFrom(email, rules, i) ==
  IF i > Len(rules) THEN 0
  ELSE IF RuleMatches(email, rules[i]) THEN i
  ELSE FindFrom(email, rules, i + 1)

\* Variant that scans the list from its end and so returns the last match
RECURSIVE FindLastFrom(_, _, _)
FindLastFrom(email, rules, i) ==
  IF i < 1 THEN 0
  ELSE IF RuleMatches(email, rules[i]) THEN i
  ELSE FindLastFrom(email, rules, i - 1)

findMatchingRuleMutLast(email, rules) == FindLastFrom(email, rules, Len(rules))

findMatchingRule(email, rules) == FindFrom(email, rules, 1)

\* ---------------------------------------------------- inputs of the matcher
KeywordLists == {Absent, Some(<<>>), Some(<< <<"a">> >>), Some(<< <<"B">>, <<"A", "b">> >>)}

SalesTag == <<"s", "a", "l", "e", "s">>
LeadTag == <<"l", "e", "a", "d">>

Actions == {[tags |-> Some(<<SalesTag, LeadTag>>), priority |-> Some("high")]}

MatchRules ==
  {[match |-> [toContains |-> t, subjectContains |-> s], action |-> a] :
     t \in KeywordLists, s \in KeywordLists, a \in Actions}

RuleLists == UNION {[1..k -> MatchRules] : k \in 0..MaxRules}

OptStrs == {Absent} \cup {Some(s) : s \in StrsUpTo(MaxLen)}

MatchEmails == [to : OptStrs, subject : OptStrs]

VARIABLES mRules, mEmail, mResult,       \* one findMatchingRule call
          env, users, tickets, msg, w,     \* worker deployment, Zammad, deliveries
          config, domain, nEmail, n,       \* ZammadIntegration instance and its call
          rate                             \* one sender's arrivals, as the mail transport counts them

mvars == <<mRules, mEmail, mResult>>

MatchInit ==
  /\ mRules \in RuleLists
  /\ mEmail = Absent
  /\ mResult = 0

\* One call findMatchingRule(email, rules)
MatchCall ==
  /\ mEmail = Absent
  /\ \E e \in MatchEmails :
       /\ mEmail' = Some(e)
       /\ mResult' = findMatchingRule(e, mRules)
  /\ UNCHANGED <<mRules, env, users, tickets, msg, w, config, domain, nEmail, n, rate>>

\* ------------------------------------------------------------ Zammad API
\* Sender addresses; ShortAddr occurs inside LongAddr
ShortAddr == <<"a", "@", "x">>
LongAddr == <<"b", "a", "@", "x">>
NewAddr == <<"n", "@", "x">>

Null == [kind |-> "null"]

\* GET /users/search?query=<email>: the server answers with the records its
\* full-text query matches, here those whose email contains the query; the
\* order of the answer is the server's, so results[0] is any of them
QueryMatches(user, query) == Includes(ToLowerCase(user.email), ToLowerCase(query))

SearchResults(directory, query) == {u \in directory : QueryMatches(u, query)}

\* the record POST /users stores and returns
NewUser(directory, customerData) ==
  [id |-> Cardinality(directory) + 1, email |-> customerData.email]

\* the directory before the first message: one customer, LongAddr
InitialUsers == {[id |-> 1, email |-> LongAddr]}

\* a truthy optional string: neither undefined, null nor ''
Truthy(opt) == opt # Absent /\ opt[1] # <<>>

NoSubject == <<"(", "N", "o", " ", "S", "u", "b", "j", "e", "c", "t", ")">>
TextBody == <<"t">>
HtmlBody == <<"<", "p", ">", "t">>
SalesTo == <<"s", "a", "l", "e", "s", "@", "x">>
InfoTo == <<"i", "n", "f", "o", "@", "x">>
QuoteSubject == <<"q", "u", "o", "t", "e">>
NoHeaders == [precedence |-> Absent, autoSubmitted |-> Absent]
BulkHeaders == [precedence |-> Some("bulk"), autoSubmitted |-> Absent]

\* -------------------------------------------------- worker: ticket payload
WorkerTicketData(email, cust) ==
  [title |-> IF Truthy(email.subject) THEN email.subject[1] ELSE NoSubject,
   group |-> "Users",
   customer_id |-> cust.id,
   article |->
     [subject |-> IF Truthy(email.subject) THEN email.subject[1] ELSE NoSubject,
      body |-> IF Truthy(email.text) THEN email.text[1]
               ELSE IF Truthy(email.html) THEN email.html[1] ELSE <<>>,
      type |-> "email",
      sender |-> "Customer",
      from |-> email.from,
      to |-> email.to,
      content_type |-> IF Truthy(email.html) THEN "text/html" ELSE "text/plain",
      internal |-> FALSE],
   priority |-> "2 normal",
   state |-> "new"]

\* ------------------------------------------------------- worker: deliveries
NumDeliveries == 2     \* concurrent invocations of the email handler
Deliveries == 1..NumDeliveries

\* what the mail transport hands to the handler; id is the transport message-id
Inbox ==
  {[id |-> "m1", from |-> ShortAddr, to |-> SalesTo, subject |-> Some(QuoteSubject),
    text |-> Some(TextBody), html |-> Some(HtmlBody), headers |-> NoHeaders],
   [id |-> "m2", from |-> NewAddr, to |-> InfoTo, subject |-> Absent,
    text |-> Some(TextBody), html |-> Absent, headers |-> BulkHeaders],
   [id |-> "m3", from |-> NewAddr, to |-> SalesTo, subject |-> Some(<<>>),
    text |-> Absent, html |-> Some(HtmlBody), headers |-> NoHeaders]}

MsgIds == {m.id : m \in Inbox}

Envs == [FORWARD_TO : BOOLEAN, ZAMMAD_API_TOKEN : BOOLEAN]

\* the locals of one invocation of email(message, env, ctx), and the forward
\* calls the mail platform has seen from it
FreshInvocation ==
  [pc |-> "parse", customer |-> Null, ticket |-> Null,
   searchRes |-> "none", userRes |-> "none", ticketRes |-> "none",
   forwards |-> 0, forwarded |-> 0]

\* createZammadTicket has returned and its result has been logged: its locals are dead
Left(pc, forwards, forwarded) ==
  [FreshInvocation EXCEPT !.pc = pc, !.forwards = forwards, !.forwarded = forwarded]

wvars == <<env, users, tickets, msg, w>>
others == <<mRules, mEmail, mResult, config, domain, nEmail, n, rate>>

WorkerInit ==
  /\ env \in Envs
  /\ users = InitialUsers
  /\ tickets = {}
  /\ msg \in [Deliveries -> Inbox]
  /\ w = [d \in Deliveries |-> FreshInvocation]

Set(d, fields) == w' = [w EXCEPT ![d] = fields @@ w[d]]

\* parseEmail: reads the raw stream, the text and the html; any of them may throw
ParseEmail(d) ==
  /\ w[d].pc = "parse"
  /\ \/ Set(d, [pc |-> "ticket"])
     \/ Set(d, [pc |-> "catch"])
  /\ UNCHANGED <<env, users, tickets, msg, others>>

\* createZammadTicket up to the answer of GET /users/search
SearchCustomer(d) ==
  /\ w[d].pc = "ticket"
  /\ IF ~env.ZAMMAD_API_TOKEN
       THEN Set(d, [pc |-> "forward"])
       ELSE \/ Set(d, [pc |-> "forward", searchRes |-> "network"])
            \/ Set(d, [pc |-> "createUser", searchRes |-> "non2xx"])
            \/ /\ SearchResults(users, msg[d].from) = {}
               /\ Set(d, [pc |-> "createUser", searchRes |-> "empty"])
            \/ \E u \in SearchResults(users, msg[d].from) :
                 Set(d, [pc |-> "post", searchRes |-> "found", customer |-> u])
  /\ UNCHANGED <<env, users, tickets, msg, others>>

\* findOrCreateCustomer from POST /users on
CreateCustomer(d) ==
  /\ w[d].pc = "createUser"
  /\ \/ LET u == NewUser(users, [email |-> msg[d].from])
        IN  /\ users' = users \cup {u}
            /\ Set(d, [pc |-> "post", userRes |-> "ok", customer |-> u])
     \/ /\ \E r \in {"non2xx", "network"} :
             Set(d, [pc |-> "forward", userRes |-> r])
        /\ UNCHANGED users
  /\ UNCHANGED <<env, tickets, msg, others>>

\* Variant in which a failed POST /tickets is rethrown instead of returning null
PostTicketMutThrows(d) ==
  /\ w[d].pc = "post"
  /\ \/ LET t == [kind |-> "ticket", delivery |-> d, key |-> msg[d].id,
                   data |-> WorkerTicketData(msg[d], w[d].customer)]
        IN  /\ tickets' = tickets \cup {t}
            /\ Set(d, [pc |-> "forward", ticketRes |-> "ok", ticket |-> t,
                       customer |-> Null])
     \/ /\ \E r \in {"non2xx", "network"} :
             Set(d, [pc |-> "catch", ticketRes |-> r, customer |-> Null])
        /\ UNCHANGED tickets
  /\ UNCHANGED <<env, users, msg, others>>

\* createZammadTicket from the ticket payload on
PostTicket(d) ==
  /\ w[d].pc = "post"
  /\ \/ LET t == [kind |-> "ticket", delivery |-> d, key |-> msg[d].id,
                   data |-> WorkerTicketData(msg[d], w[d].customer)]
        IN  /\ tickets' = tickets \cup {t}
            /\ Set(d, [pc |-> "forward", ticketRes |-> "ok", ticket |-> t,
                       customer |-> Null])
     \* !response.ok, or fetch / response.json() rejecting: both return null
     \/ /\ \E r \in {"non2xx", "network"} :
             Set(d, [pc |-> "forward", ticketRes |-> r, customer |-> Null])
        /\ UNCHANGED tickets
  /\ UNCHANGED <<env, users, msg, others>>

\* the rest of the try block: log the ticket, forward
Forward(d) ==
  /\ w[d].pc = "forward"
  /\ IF env.FORWARD_TO
       THEN \/ w' = [w EXCEPT ![d] = Left("done", @.forwards + 1, @.forwarded + 1)]
            \/ w' = [w EXCEPT ![d] = Left("catch", @.forwards + 1, @.forwarded)]
       ELSE w' = [w EXCEPT ![d] = Left("done", @.forwards, @.forwarded)]
  /\ UNCHANGED <<env, users, tickets, msg, others>>

\* Variant of the catch block that only logs the error
CatchForwardMutSkip(d) ==
  /\ w[d].pc = "catch"
  /\ w' = [w EXCEPT ![d] = Left("done", @.forwards, @.forwarded)]
  /\ UNCHANGED <<env, users, tickets, msg, others>>

\* the catch block: forward, and a throw here rejects the handler's promise
CatchForward(d) ==
  /\ w[d].pc = "catch"
  /\ IF env.FORWARD_TO
       THEN \/ w' = [w EXCEPT ![d] = Left("done", @.forwards + 1, @.forwarded + 1)]
            \/ w' = [w EXCEPT ![d] = Left("rejected", @.forwards + 1, @.forwarded)]
       ELSE w' = [w EXCEPT ![d] = Left("done", @.forwards, @.forwarded)]
  /\ UNCHANGED <<env, users, tickets, msg, others>>

WorkerNext ==
  \E d \in Deliveries :
    \/ ParseEmail(d)
    \/ SearchCustomer(d)
    \/ CreateCustomer(d)
    \/ PostTicket(d)
    \/ Forward(d)
    \/ CatchForward(d)

\* ------------------------------------------- ZammadIntegration (Node side)
\* Array.prototype.join(',')
RECURSIVE Join(_)
Join(strs) ==
  IF Len(strs) = 0 THEN <<>>
  ELSE IF Len(strs) = 1 THEN strs[1]
  ELSE strs[1] \o <<",">> \o Join(Tail(strs))

\* Variant of the constructor that leaves the integration enabled without a token
EnabledMutTokenIgnored(cfg) == cfg.ZAMMAD_ENABLED # Some("false")

\* constructor: this.enabled
Enabled(cfg) ==
  IF cfg.ZAMMAD_ENABLED = Some("false") THEN FALSE
  ELSE IF ~cfg.ZAMMAD_API_TOKEN THEN FALSE
  ELSE TRUE

\* email.from.address || email.from
CustomerEmail(email) ==
  IF email.from.kind = "object" /\ Truthy(email.from.address)
    THEN email.from.address[1] ELSE email.from.value

NodeTicketData(email, cust, domainConfig) ==
  LET zammadConfig == IF domainConfig.zammad = Absent
                        THEN [group |-> Absent, priority |-> Absent]
                        ELSE domainConfig.zammad[1]
      base == [title |-> IF Truthy(email.subject) THEN email.subject[1] ELSE NoSubject,
               group |-> IF zammadConfig.group # Absent THEN zammadConfig.group[1] ELSE "Users",
               customer_id |-> cust.id,
               article |->
                 [subject |-> IF Truthy(email.subject) THEN email.subject[1] ELSE NoSubject,
                  body |-> IF Truthy(email.body) THEN email.body[1]
                           ELSE IF Truthy(email.text) THEN email.text[1] ELSE <<>>,
                  type |-> "email",
                  sender |-> "Customer",
                  from |-> CustomerEmail(email),
                  to |-> email.to,
                  content_type |-> IF Truthy(email.html) THEN "text/html" ELSE "text/plain"],
               priority |-> IF zammadConfig.priority # Absent
                              THEN zammadConfig.priority[1] ELSE "2 normal",
               state |-> "new",
               tags |-> Absent]
      rules == IF domainConfig.rules = Absent THEN <<>> ELSE domainConfig.rules[1]
      matching == IF Len(rules) > 0 THEN findMatchingRule(email, rules) ELSE 0
  IN  IF matching # 0 /\ rules[matching].action.tags # Absent
        THEN [base EXCEPT !.tags = Some(Join(rules[matching].action.tags[1]))]
        ELSE base

\* inputs of createTicket(email, domainConfig)
Configs == [ZAMMAD_ENABLED : {Absent, Some("false")}, ZAMMAD_API_TOKEN : BOOLEAN]

NodeFroms ==
  {[kind |-> "string", value |-> ShortAddr],
   [kind |-> "string", value |-> NewAddr],
   [kind |-> "object", value |-> <<>>, address |-> Some(NewAddr)]}

NodeEmails ==
  [id : {"m1"}, from : NodeFroms, to : {Some(SalesTo), Some(InfoTo)},
   subject : {Absent, Some(QuoteSubject)},
   body : {Absent, Some(TextBody)}, text : {Absent, Some(TextBody)},
   html : {Absent, Some(HtmlBody)}, headers : {NoHeaders, BulkHeaders}]

SalesRule ==
  [match |-> [toContains |-> Some(<< SalesTag >>), subjectContains |-> Absent],
   action |-> [tags |-> Some(<< SalesTag >>), priority |-> Some("high")]]

QuoteRule ==
  [match |-> [toContains |-> Absent, subjectContains |-> Some(<< QuoteSubject >>)],
   action |-> [tags |-> Absent, priority |-> Some("low")]]

DomainConfigs ==
  [zammad : {Absent, Some([group |-> Some("Sales"), priority |-> Some("3 high")])},
   rules : {Absent, Some(<<>>), Some(<< SalesRule >>), Some(<< QuoteRule, SalesRule >>)}]

\* test: what testConnection returned; testReq: it has sent GET /users/me
FreshCall ==
  [pc |-> "call", customer |-> Null, result |-> Null,
   searchRes |-> "none", userRes |-> "none", ticketRes |-> "none",
   test |-> Null, testReq |-> FALSE]

nvars == <<config, domain, nEmail, n>>
nOthers == <<mRules, mEmail, mResult, env, msg, w, rate>>

NodeInit ==
  /\ config \in Configs
  /\ domain \in DomainConfigs
  /\ nEmail \in NodeEmails
  /\ n = FreshCall
  /\ users = InitialUsers
  /\ tickets = {}

NSet(fields) == n' = fields @@ n

\* createTicket up to the answer of GET /users/search; axios rejects on a
\* network error, a timeout and a non-2xx status
NodeSearchCustomer ==
  /\ n.pc = "call"
  /\ IF ~Enabled(config)
       THEN NSet([pc |-> "returned"])
       ELSE \/ \E r \in {"non2xx", "network"} :
                 NSet([pc |-> "threw", searchRes |-> r,
                       result |-> [kind |-> "error", status |-> r]])
            \/ /\ SearchResults(users, CustomerEmail(nEmail)) = {}
               /\ NSet([pc |-> "createUser", searchRes |-> "empty"])
            \/ \E u \in SearchResults(users, CustomerEmail(nEmail)) :
                 NSet([pc |-> "post", searchRes |-> "found", customer |-> u])
  /\ UNCHANGED <<config, domain, nEmail, users, tickets, nOthers>>

\* findOrCreateCustomer from POST /users on
NodeCreateCustomer ==
  /\ n.pc = "createUser"
  /\ \/ LET u == NewUser(users, [email |-> CustomerEmail(nEmail)])
        IN  /\ users' = users \cup {u}
            /\ NSet([pc |-> "post", userRes |-> "ok", customer |-> u])
     \/ /\ \E r \in {"non2xx", "network"} :
             NSet([pc |-> "threw", userRes |-> r,
                   result |-> [kind |-> "error", status |-> r]])
        /\ UNCHANGED users
  /\ UNCHANGED <<config, domain, nEmail, tickets, nOthers>>

\* createTicket from the ticket payload on
NodePostTicket ==
  /\ n.pc = "post"
  /\ \/ LET t == [kind |-> "ticket", delivery |-> 0, key |-> nEmail.id,
                   data |-> NodeTicketData(nEmail, n.customer, domain)]
        IN  /\ tickets' = tickets \cup {t}
            /\ NSet([pc |-> "returned", ticketRes |-> "ok", result |-> t])
     \/ /\ \E r \in {"non2xx", "network"} :
             NSet([pc |-> "threw", ticketRes |-> r,
                   result |-> [kind |-> "error", status |-> r]])
        /\ UNCHANGED tickets
  /\ UNCHANGED <<config, domain, nEmail, users, nOthers>>

\* testConnection
TestConnection ==
  /\ n.pc # "idle"
  /\ n.test = Null
  /\ IF ~Enabled(config)
       THEN NSet([test |-> [kind |-> "result", success |-> FALSE,
                            error |-> "Zammad integration disabled"]])
       ELSE \/ NSet([test |-> [kind |-> "result", success |-> TRUE, error |-> "none"],
                     testReq |-> TRUE])
            \/ \E r \in {"non2xx", "network"} :
                 NSet([test |-> [kind |-> "result", success |-> FALSE, error |-> r],
                       testReq |-> TRUE])
  /\ UNCHANGED <<config, domain, nEmail, users, tickets, nOthers>>

NodeNext ==
  \/ NodeSearchCustomer
  \/ NodeCreateCustomer
  \/ NodePostTicket
  \/ TestConnection

\* ---------------------------------------------------------- specifications
vars == <<mRules, mEmail, mResult, env, users, tickets, msg, w, config, domain, nEmail, n,
          rate>>

MatchIdle == mRules = <<>> /\ mEmail = Absent /\ mResult = 0

WorkerIdle ==
  /\ env = [FORWARD_TO |-> FALSE, ZAMMAD_API_TOKEN |-> FALSE]
  /\ msg = <<>>
  /\ w = <<>>

ServerIdle == users = {} /\ tickets = {}

NodeIdle ==
  /\ config = [ZAMMAD_ENABLED |-> Some("false"), ZAMMAD_API_TOKEN |-> FALSE]
  /\ domain = [zammad |-> Absent, rules |-> Absent]
  /\ nEmail = Null
  /\ n = [FreshCall EXCEPT !.pc = "idle"]

RateIdle == rate = [window |-> 0, count |-> 0, delivered |-> 0]

\* the worker: NumDeliveries concurrent deliveries
Init == WorkerInit /\ MatchIdle /\ NodeIdle /\ RateIdle
Next == WorkerNext
Spec == Init /\ [][Next]_vars

\* the Node integration: one createTicket call
InitNode == NodeInit /\ MatchIdle /\ WorkerIdle /\ RateIdle
NextNode == NodeNext
SpecNode == InitNode /\ [][NextNode]_vars

\* findMatchingRule alone
InitMatch == MatchInit /\ WorkerIdle /\ ServerIdle /\ NodeIdle /\ RateIdle
NextMatch == MatchCall
SpecMatch == InitMatch /\ [][NextMatch]_vars

\* ------------------------------------- one sender, one delivery at a time
RateLimitPerHour == 10    \* RATE_LIMIT_PER_HOUR, default
MaxArrivals == 2          \* deliveries followed in one behaviour
MaxWindows == 1           \* rate-limit windows that expire in one behaviour

\* the count-th message the sender sends in a window; its id is <<window, count>>
SenderMessage(window, count) ==
  [id |-> <<window, count>>, from |-> LongAddr, to |-> SalesTo,
   subject |-> Some(QuoteSubject), text |-> Some(TextBody), html |-> Absent,
   headers |-> NoHeaders]

\* The sender has already sent rate.count messages in the current window while
\* Zammad was unreachable (no ticket, no customer came of them); the handler is idle.
RateInit ==
  /\ env \in Envs
  /\ users = InitialUsers
  /\ tickets = {}
  /\ rate \in [window : {0}, count : 0..RateLimitPerHour, delivered : {0}]
  /\ msg = << SenderMessage(0, rate.count) >>
  /\ w = << Left("done", 0, 0) >>

\* the mail transport invokes email(message, env, ctx) for the sender's next message
Deliver ==
  /\ w[1].pc \in {"done", "rejected"}
  /\ rate.delivered < MaxArrivals
  /\ rate.count <= RateLimitPerHour
  /\ rate' = [rate EXCEPT !.count = @ + 1, !.delivered = @ + 1]
  /\ msg' = << SenderMessage(rate.window, rate.count + 1) >>
  /\ w' = << FreshInvocation >>
  /\ UNCHANGED <<env, users, tickets, mRules, mEmail, mResult, config, domain, nEmail, n>>

\* the hour since the window opened has passed
WindowExpires ==
  /\ rate.window < MaxWindows
  /\ rate' = [rate EXCEPT !.window = @ + 1, !.count = 0]
  /\ UNCHANGED <<env, users, tickets, msg, w, mRules, mEmail, mResult, config, domain,
                 nEmail, n>>

InitRate == RateInit /\ MatchIdle /\ NodeIdle
NextRate ==
  \/ Deliver
  \/ WindowExpires
  \/ ParseEmail(1)
  \/ SearchCustomer(1)
  \/ CreateCustomer(1)
  \/ PostTicket(1)
  \/ Forward(1)
  \/ CatchForward(1)
SpecRate == InitRate /\ [][NextRate]_vars

\* ------------------- the worker and the Node integration on one Zammad
BothEmails ==
  {e \in NodeEmails :
     /\ e.to = Some(SalesTo) /\ e.subject = Some(QuoteSubject) /\ e.body = Absent
     /\ e.text = Some(TextBody) /\ e.html = Absent /\ e.headers = NoHeaders}

\* one delivery to the worker, one ZammadIntegration instance
InitBoth ==
  /\ env \in Envs
  /\ users = InitialUsers
  /\ tickets = {}
  /\ msg \in {<< m >> : m \in Inbox}
  /\ w = << FreshInvocation >>
  /\ config \in Configs
  /\ domain = [zammad |-> Absent, rules |-> Some(<< SalesRule >>)]
  /\ nEmail \in BothEmails
  /\ n = FreshCall
  /\ MatchIdle
  /\ RateIdle

NextBoth ==
  \/ ParseEmail(1)
  \/ SearchCustomer(1)
  \/ CreateCustomer(1)
  \/ PostTicket(1)
  \/ Forward(1)
  \/ CatchForward(1)
  \/ NodeSearchCustomer
  \/ NodeCreateCustomer
  \/ NodePostTicket
  \/ TestConnection
SpecBoth == InitBoth /\ [][NextBoth]_vars

\* ------------------------------------------------------------------ claims

\* C1: for deliveries with the same deduplication key (transport message-id),
\* never more than one POST /tickets succeeds for that key.
C1_AtMostOneTicketPerKey ==
  \A k \in MsgIds : Cardinality({t \in tickets : t.key = k}) <= 1

\* C2: findMatchingRule returns the first rule in list order that matches: the
\* returned rule matches, no rule before it matches, and it returns null
\* exactly when no rule of the list matches.
C2_FirstMatchingRule ==
  mEmail # Absent =>
    LET e == mEmail[1] IN
      /\ mResult \in 0..Len(mRules)
      /\ mResult # 0 =>
           /\ RuleMatches(e, mRules[mResult])
           /\ \A j \in 1..(mResult - 1) : ~RuleMatches(e, mRules[j])
      /\ mResult = 0 <=> \A j \in 1..Len(mRules) : ~RuleMatches(e, mRules[j])

\* the first rule is returned although the second rule matches as well
C2_Witness ==
  /\ mEmail # Absent
  /\ Len(mRules) = 2
  /\ mResult = 1
  /\ mRules[1] # mRules[2]
  /\ RuleMatches(mEmail[1], mRules[2])

\* The claim's reading of a match: keyword k is a case-insensitive substring of f
CaseInsensitiveSubstring(k, f) ==
  \E off \in 0..(Len(f) - Len(k)) :
    \A j \in 1..Len(k) : LowerChar(f[off + j]) = LowerChar(k[j])

FieldSatisfied(declared, value) ==
  \E i \in 1..Len(declared[1]) : CaseInsensitiveSubstring(declared[1][i], OrEmpty(value))

EveryDeclaredFieldSatisfied(email, rule) ==
  /\ rule.match.toContains # Absent => FieldSatisfied(rule.match.toContains, email.to)
  /\ rule.match.subjectContains # Absent
       => FieldSatisfied(rule.match.subjectContains, email.subject)

\* C3: a rule matches an email iff every match field it declares is satisfied
\* (AND across toContains and subjectContains, OR across a field's keywords,
\* case-insensitive substring, an absent email field read as the empty string).
C3_AndAcrossFields ==
  mEmail # Absent =>
    LET e == mEmail[1] IN
      /\ \A i \in 1..Len(mRules) :
           RuleMatches(e, mRules[i]) <=> EveryDeclaredFieldSatisfied(e, mRules[i])
      /\ mResult # 0 => EveryDeclaredFieldSatisfied(e, mRules[mResult])
      /\ mResult = 0 => \A i \in 1..Len(mRules) : ~EveryDeclaredFieldSatisfied(e, mRules[i])

\* a rule declaring both fields, of which only toContains is satisfied, does not match
C3_Witness ==
  /\ mEmail # Absent
  /\ Len(mRules) = 1
  /\ mRules[1].match.toContains # Absent
  /\ mRules[1].match.subjectContains # Absent
  /\ FieldSatisfied(mRules[1].match.toContains, mEmail[1].to)
  /\ ~FieldSatisfied(mRules[1].match.subjectContains, mEmail[1].subject)
  /\ mResult = 0

Finished(d) == w[d].pc \in {"done", "rejected"}

\* C4: with FORWARD_TO configured, every invocation of the email handler has
\* made a forward call by the time it finishes, whatever the pipeline's outcome.
C4_ForwardAttempted ==
  \A d \in Deliveries : (env.FORWARD_TO /\ Finished(d)) => w[d].forwards >= 1

\* a handler finished with a token configured and no ticket created, yet forwarded
C4_Witness ==
  \E d \in Deliveries :
    /\ env.FORWARD_TO
    /\ env.ZAMMAD_API_TOKEN
    /\ Finished(d)
    /\ ~\E t \in tickets : t.delivery = d
    /\ w[d].forwards >= 1

\* C5: POST /users is issued only after the search has succeeded and returned
\* no record; a search that fails or finds a record creates no customer.
C5_CreateOnlyAfterEmptySearch ==
  \A d \in Deliveries : w[d].userRes # "none" => w[d].searchRes = "empty"

\* C6: the existing customer findOrCreateCustomer returns has the requested email.
C6_ExactEmailMatch ==
  \A d \in Deliveries :
    (w[d].searchRes = "found" /\ w[d].customer # Null)
      => w[d].customer.email = msg[d].from

\* C7: a failed POST /tickets (network error or non-2xx) is returned to the
\* caller as an error outcome, never as the value that also means "no ticket".
C7_FailureSurfaced ==
  \A d \in Deliveries :
    (w[d].pc = "forward" /\ w[d].ticketRes \in {"non2xx", "network"})
      => (w[d].ticket # Null /\ w[d].ticket.kind = "error")

\* C8: the article's content_type is text/html exactly when its body is the
\* message's HTML body, and text/plain exactly when it is the text body.
C8_ContentTypeFollowsBody ==
  \A t \in tickets :
    LET m == msg[t.delivery]
        a == t.data.article
    IN  /\ a.content_type = "text/html" <=> (Truthy(m.html) /\ a.body = m.html[1])
        /\ a.content_type = "text/plain" <=> (Truthy(m.text) /\ a.body = m.text[1])

\* the rules of the domain configuration, and the rule the email matches (0: none)
DomainRules == IF domain.rules = Absent THEN <<>> ELSE domain.rules[1]
MatchedRule == findMatchingRule(nEmail, DomainRules)
DefaultPriority ==
  IF domain.zammad # Absent /\ domain.zammad[1].priority # Absent
    THEN domain.zammad[1].priority[1] ELSE "2 normal"

\* C9: the submitted ticket carries the matched rule's tags and priority, and
\* the default priority and no tags when no rule matches.
C9_RulePriorityAndTags ==
  \A t \in tickets :
    IF MatchedRule # 0
      THEN LET action == DomainRules[MatchedRule].action IN
             /\ action.tags # Absent => t.data.tags = Some(Join(action.tags[1]))
             /\ action.priority # Absent => t.data.priority = action.priority[1]
      ELSE t.data.tags = Absent /\ t.data.priority = DefaultPriority

\* Loop guard of the claim: the headers that mark a message machine-originated
MachineOriginated(email) ==
  \/ email.headers.precedence \in {Some("bulk"), Some("junk"), Some("list")}
  \/ (email.headers.autoSubmitted # Absent /\ email.headers.autoSubmitted # Some("no"))

\* C10: a ticket created for a machine-originated message (Precedence: bulk)
\* does not carry a customer article: its sender role marks it machine-originated.
C10_MachineOriginatedSender ==
  \A t \in tickets : MachineOriginated(nEmail) => t.data.article.sender # "Customer"

\* C11: a sender's message beyond the configured maximum (default 10) in one
\* window, the 11th, is rate limited and creates no ticket; the first message
\* after the window has expired is processed again.
C11_EleventhMessageCreatesNoTicket ==
  \A t \in tickets : t.key[2] <= RateLimitPerHour

\* C12: POST /tickets is issued only after customer resolution succeeded in the
\* same invocation, with the resolved customer's id: after a failed search or a
\* failed creation no ticket request is sent, and an invocation sends at most
\* one POST /tickets.
C12_TicketOnlyAfterCustomerResolved ==
  /\ \A d \in Deliveries :
       /\ w[d].ticketRes # "none" =>
            /\ w[d].searchRes \in {"found", "empty"}
            /\ w[d].searchRes = "empty" => w[d].userRes = "ok"
       /\ Cardinality({t \in tickets : t.delivery = d}) <= 1
  /\ \A t \in tickets : \E u \in users : u.id = t.data.customer_id

\* no request of the invocation / of the call has gone to Zammad
WorkerSilent(d) ==
  /\ w[d].searchRes = "none" /\ w[d].userRes = "none" /\ w[d].ticketRes = "none"
  /\ w[d].pc \notin {"createUser", "post"}
  /\ w[d].ticket = Null

NodeSilent ==
  /\ n.searchRes = "none" /\ n.userRes = "none" /\ n.ticketRes = "none"
  /\ n.pc \in {"call", "returned"}
  /\ n.result = Null
  /\ ~n.testReq
  /\ n.test # Null => ~n.test.success

NodeDisabled == config.ZAMMAD_ENABLED = Some("false") \/ ~config.ZAMMAD_API_TOKEN

\* C13: with the integration disabled or no API token configured, ticket
\* creation returns null and testConnection reports failure without any request
\* to Zammad (no user search, no user create, no ticket create), and the worker
\* still forwards the message when FORWARD_TO is set.  (The worker's only
\* switch is ZAMMAD_API_TOKEN; ZAMMAD_ENABLED is read by the constructor.)
C13_DisabledIssuesNoRequest ==
  /\ ~env.ZAMMAD_API_TOKEN =>
       \A d \in DOMAIN w :
         /\ WorkerSilent(d)
         /\ (env.FORWARD_TO /\ Finished(d)) => w[d].forwards >= 1
  /\ NodeDisabled => NodeSilent
  /\ (~env.ZAMMAD_API_TOKEN /\ NodeDisabled) => (users = InitialUsers /\ tickets = {})

\* without a token the worker has forwarded and finished, createTicket has
\* returned null and testConnection has reported failure
C13_Witness ==
  /\ ~env.ZAMMAD_API_TOKEN /\ env.FORWARD_TO
  /\ w[1].pc = "done" /\ w[1].forwards >= 1
  /\ ~config.ZAMMAD_API_TOKEN
  /\ n.pc = "returned" /\ n.result = Null
  /\ n.test # Null /\ ~n.test.success

\* one step of invocation d, as the claim allows it
C14_Step(d) ==
  /\ w'[d].forwarded <= 1
  /\ w'[d].forwards <= 2
  \* a second attempt is made in the catch block, after a first one that threw
  /\ (w'[d].forwards = 2 /\ w[d].forwards = 1) => (w[d].pc = "catch" /\ w[d].forwarded = 0)
  \* the catch block is entered from parseEmail or from the first forward only
  /\ (w'[d].pc = "catch" /\ w[d].pc # "catch") =>
       \/ w[d].pc = "parse"
       \/ w[d].pc = "forward" /\ w'[d].forwards = 1 /\ w'[d].forwarded = 0
  \* nothing inside createZammadTicket reaches the catch block or fails the handler
  /\ w[d].pc \in {"ticket", "createUser", "post"} => w'[d].pc \notin {"catch", "rejected"}
  \* the handler fails only when the forward of the catch block throws
  /\ (w'[d].pc = "rejected" /\ w[d].pc # "rejected") =>
       /\ w[d].pc = "catch" /\ env.FORWARD_TO
       /\ w'[d].forwards = w[d].forwards + 1 /\ w'[d].forwarded = w[d].forwarded

\* C14: an invocation forwards the message successfully at most once and makes
\* at most two forward attempts, the second only after parsing or the first
\* forward threw; customer and ticket failures never leave createZammadTicket,
\* so the handler fails only through a forward that throws in the catch block.
C14_ForwardAtMostOnce == [][\A d \in Deliveries : C14_Step(d)]_vars

\* the first forward threw and the second, in the catch block, succeeded
C14_Witness ==
  \E d \in Deliveries : w[d].pc = "done" /\ w[d].forwards = 2 /\ w[d].forwarded = 1

====
